---- MODULE Spec2Model ----
(***************************************************************************)
(* OmniRAG (src/app.py): a Streamlit script.  Every user interaction runs  *)
(* the script once from top to bottom against the per-browser              *)
(* st.session_state and the process-wide st.cache_resource/st.cache_data   *)
(* stores.  One action of this module is one such script run.              *)
(*                                                                         *)
(* Strings that are sorted, joined or searched are sequences of character  *)
(* codes (Python compares str by code point).  Texts produced by the LLM   *)
(* and by the loaders are records that say what they are.                  *)
(***************************************************************************)
EXTENDS Integers, Sequences, FiniteSets, TLC

(***************************************************************************)
(* Bounds of the model.                                                    *)
(***************************************************************************)
MaxFiles == 2        \* uploaded files in one process operation
MaxTurns == 2        \* questions asked in one session
MaxProcess == 2      \* process operations in one process lifetime (Spec)
MaxKeyLen == 3       \* identifiers in a list given to get_cache_key alone


(***************************************************************************)
(* Python str operations on sequences of character codes.                  *)
(***************************************************************************)
\* a < b for Python str, comparing from position i on: the first differing
\* code point decides, a proper prefix is smaller.
RECURSIVE StrLessFrom(_, _, _)
StrLessFrom(a, b, i) ==
    IF i > Len(a) THEN i <= Len(b)
    ELSE IF i > Len(b) THEN FALSE
    ELSE IF a[i] # b[i] THEN a[i] < b[i]
    ELSE StrLessFrom(a, b, i + 1)

StrLess(a, b) == StrLessFrom(a, b, 1)

\* sub in s
Contains(s, sub) ==
    \E i \in 0..(Len(s) - Len(sub)) :
        \A j \in 1..Len(sub) : s[i + j] = sub[j]

RECURSIVE Insert(_, _)
Insert(x, l) ==
    IF l = <<>> THEN <<x>>
    ELSE IF StrLess(x, Head(l)) THEN <<x>> \o l
    ELSE <<Head(l)>> \o Insert(x, Tail(l))

\* sorted(l): ascending, stable
RECURSIVE sorted(_)
sorted(l) == IF l = <<>> THEN <<>> ELSE Insert(l[Len(l)], sorted(SubSeq(l, 1, Len(l) - 1)))

\* sep.join(l)
RECURSIVE join(_, _)
join(sep, l) ==
    IF l = <<>> THEN <<>>
    ELSE IF Len(l) = 1 THEN l[1]
    ELSE l[1] \o sep \o join(sep, Tail(l))

Separator == <<124, 124>>      \* "||"

(***************************************************************************)
(* SHA-256.  hashlib.sha256(b).hexdigest() is 64 lower-case hex digits.    *)
(* The digest is modelled as an ideal hash: file contents are numbered     *)
(* (FileContents) and the digest of content b is the 64-digit hex numeral  *)
(* of b, which is injective on them; the digest of a joined key string is  *)
(* the term <<"sha256", string>>.                                          *)
(***************************************************************************)
DigestLen == 64

HexDigit(n) == IF n < 10 THEN 48 + n ELSE 87 + n

sha256_of_bytes(b) ==
    [i \in 1..DigestLen |->
        IF i = DigestLen THEN HexDigit(b % 16)
        ELSE IF i = DigestLen - 1 THEN HexDigit((b \div 16) % 16)
        ELSE 48]

doc_id_from_source(file_bytes) == sha256_of_bytes(file_bytes)

get_cache_key_unsorted(cache_key_components) ==
    <<"sha256", join(Separator, cache_key_components)>>

get_cache_key(cache_key_components) ==
    <<"sha256", join(Separator, sorted(cache_key_components))>>

(***************************************************************************)
(* Configuration.                                                          *)
(***************************************************************************)
\* LANGUAGES: display-language names (keys of the dict).
LANGUAGES == {"English", "Espanol", "Hindi", "Telugu", "Tamil"}

\* summary_length values of the slider that the model draws from.
SummaryLengths == {100, 300}

\* user_q values that the model draws from.
Questions == {"q1"}

(***************************************************************************)
(* Inputs of a process operation.                                          *)
(***************************************************************************)
\* url_input: empty, a web page ("w"), a video ("youtu.be/x").
UrlInputs == { <<>>, <<119>>, <<121, 111, 117, 116, 117, 46, 98, 101, 47, 120>> }

\* What fetching the URL finds: readable text, nothing, no transcript, or
\* a failure of the fetch.
Fetches == {"text", "", "no_transcript", "error"}

\* Contents of uploaded files, numbered; Reads(b) is what a parser or the
\* OCR engine finds in content b: text, no text at all, or unreadable bytes.
FileContents == {0, 1, 2}
Reads(b) == IF b % 3 = 0 THEN "text" ELSE IF b % 3 = 1 THEN "" ELSE "corrupt"

MimePdf == "application/pdf"
MimeDocx == "application/vnd.openxmlformats-officedocument.wordprocessingml.document"
MimePng == "image/png"
MimeOther == "application/octet-stream"
FileTypes == {MimePdf, MimeDocx, MimePng, MimeOther}

UploadedFile == [bytes : FileContents, type : FileTypes]

RECURSIVE SeqsUpTo(_, _)
SeqsUpTo(S, n) ==
    IF n = 0 THEN { <<>> }
    ELSE LET shorter == SeqsUpTo(S, n - 1)
         IN  shorter \cup { Append(l, x) : l \in shorter, x \in S }

\* Collaborator call of a process operation that raises, if it is reached.
ProcessFaults == {"none", "embed", "summary", "translate"}
\* Collaborator call of an ask that raises.
AskFaults == {"none", "chain", "translate"}

(***************************************************************************)
(* Content Extractor.  A loader returns [raised, docs]; a Document is      *)
(* [page_content, source].                                                 *)
(***************************************************************************)
Document(content, src) == [page_content |-> content, source |-> src]
Returned(docs) == [raised |-> FALSE, docs |-> docs]
Raised == [raised |-> TRUE, docs |-> <<>>]

\* str.strip() leaves nothing
IsBlank(content) == content = ""

load_pdf(bytes) ==
    IF Reads(bytes) = "corrupt" THEN Raised
    ELSE IF IsBlank(Reads(bytes))
         THEN Returned(<<Document("(Empty or scanned PDF - no text found.)", "file")>>)
         ELSE Returned(<<Document(Reads(bytes), "file")>>)

load_docx(bytes) ==
    IF Reads(bytes) = "corrupt" THEN Raised
    ELSE Returned(<<Document(Reads(bytes), "file")>>)

load_image(bytes) ==
    IF Reads(bytes) = "corrupt" \/ IsBlank(Reads(bytes))
    THEN Returned(<<Document("(Error reading image)", "file")>>)
    ELSE Returned(<<Document(Reads(bytes), "file")>>)

load_youtube(url, fetch) ==
    IF fetch = "no_transcript"
    THEN Returned(<<Document("(No transcript available for this video.)", "url")>>)
    ELSE IF fetch = "error"
    THEN Returned(<<Document("(Error fetching transcript)", "url")>>)
    ELSE Returned(<<Document(fetch, "url")>>)

load_web(url, fetch) ==
    IF fetch \in {"error", "no_transcript"}
    THEN Returned(<<Document("Error loading web page", "url")>>)
    ELSE Returned(<<Document(fetch, "url")>>)

is_youtube(url) ==
    \/ Contains(url, <<121, 111, 117, 116, 117, 98, 101, 46, 99, 111, 109, 47,
                       119, 97, 116, 99, 104, 63, 118, 61>>)
    \/ Contains(url, <<121, 111, 117, 116, 117, 46, 98, 101, 47>>)

\* The dispatch on f.type of the file loop.
LoadFile(f) ==
    IF f.type = MimePdf THEN load_pdf(f.bytes)
    ELSE IF f.type = MimeDocx THEN load_docx(f.bytes)
    ELSE IF f.type = MimePng THEN load_image(f.bytes)
    ELSE Returned(<<>>)

(***************************************************************************)
(* The extraction part of the process handler: the URL, then the file loop *)
(* with its temporary file per upload.  The result says whether a loader   *)
(* raised (the handler's except clause then stops the run), what was       *)
(* collected, how many temporary files are left on disk and how many       *)
(* warnings were shown.                                                    *)
(***************************************************************************)
UrlStep(url_input, fetch) ==
    IF url_input = <<>>
    THEN [all_docs |-> <<>>, cache_key_components |-> <<>>]
    ELSE [all_docs |-> IF is_youtube(url_input)
                       THEN load_youtube(url_input, fetch).docs
                       ELSE load_web(url_input, fetch).docs,
          cache_key_components |-> <<url_input>>]

\* One iteration: write the temporary file, load it, unlink it, collect.
\* The unlink follows the loader call and is skipped when the loader raises.
FileStep(f, acc) ==
    LET r == LoadFile(f)
    IN  IF r.raised
        THEN [acc EXCEPT !.raised = TRUE, !.tmp_made = @ + 1, !.tmp_left = @ + 1]
        ELSE [acc EXCEPT !.tmp_made = @ + 1,
                         !.all_docs = @ \o r.docs,
                         !.cache_key_components = Append(@, doc_id_from_source(f.bytes)),
                         !.warnings = @ + (IF f.type \in {MimePdf, MimeDocx, MimePng} THEN 0 ELSE 1)]

RECURSIVE FileLoop(_, _)
FileLoop(files, acc) ==
    IF files = <<>> \/ acc.raised THEN acc
    ELSE FileLoop(Tail(files), FileStep(Head(files), acc))

Extraction(url_input, fetch, files) ==
    LET u == UrlStep(url_input, fetch)
    IN  FileLoop(files, [all_docs |-> u.all_docs,
                         cache_key_components |-> u.cache_key_components,
                         raised |-> FALSE, tmp_made |-> 0, tmp_left |-> 0,
                         warnings |-> 0])

(***************************************************************************)
(* Chunker and Index Store.                                                *)
(***************************************************************************)
\* SPLITTER.split_documents: whitespace-only documents give no chunk; every
\* other document of the model is shorter than chunk_size and gives one.
split_documents(docs) ==
    LET kept == SelectSeq(docs, LAMBDA d : ~IsBlank(d.page_content))
    IN  [i \in 1..Len(kept) |-> kept[i].page_content]

NoKey == <<>>
NoIndex == [doc_key |-> NoKey, chunks |-> <<>>, serial |-> 0]

Entry(cache, key) == CHOOSE e \in cache : e.key = key
Cached(cache, key) == \E e \in cache : e.key = key

\* A variant without the "if not chunks" guard.
BuildIndexUnguarded(docs, doc_key, serial, embed_fails) ==
    IF embed_fails
    THEN [raised |-> TRUE, index |-> NoIndex]
    ELSE [raised |-> FALSE,
          index |-> [doc_key |-> doc_key, chunks |-> split_documents(docs),
                     serial |-> serial]]

\* The body of get_or_build_index: [raised, index].  serial numbers the
\* FAISS instances in the order they are created.
BuildIndex(docs, doc_key, serial, embed_fails) ==
    LET chunks == split_documents(docs)
    IN  IF chunks = <<>> \/ embed_fails
        THEN [raised |-> TRUE, index |-> NoIndex]
        ELSE [raised |-> FALSE,
              index |-> [doc_key |-> doc_key, chunks |-> chunks, serial |-> serial]]

\* A variant that builds on every call, cached or not.
get_or_build_index_rebuilds(cache, docs, doc_key, serial, embed_fails) ==
    LET b == BuildIndex(docs, doc_key, serial, embed_fails)
    IN  [raised |-> b.raised, index |-> b.index,
         cache |-> IF b.raised THEN cache
                   ELSE { e \in cache : e.key # doc_key }
                            \cup {[key |-> doc_key, value |-> b.index]},
         built |-> ~b.raised]

\* st.cache_resource around it: the key is doc_key alone (_docs is not
\* hashed); a call that raises stores nothing.
\* [raised, index, cache, built]
get_or_build_index(cache, docs, doc_key, serial, embed_fails) ==
    IF Cached(cache, doc_key)
    THEN [raised |-> FALSE, index |-> Entry(cache, doc_key).value,
          cache |-> cache, built |-> FALSE]
    ELSE LET b == BuildIndex(docs, doc_key, serial, embed_fails)
         IN  [raised |-> b.raised, index |-> b.index,
              cache |-> IF b.raised THEN cache
                        ELSE cache \cup {[key |-> doc_key, value |-> b.index]},
              built |-> ~b.raised]

(***************************************************************************)
(* Responder and presentation.  A text is [src, lang]; the LLM answers in  *)
(* the base language, "English".                                           *)
(***************************************************************************)
Text(src, lang) == [src |-> src, lang |-> lang]
NoText == Text(<<>>, "")

translate_text_identity(text, target_lang_name) == text

translate_text(text, target_lang_name) ==
    IF target_lang_name = "English" THEN text
    ELSE [text EXCEPT !.lang = target_lang_name]

\* chain.invoke of generate_summary
SummaryOf(index, length) == Text(<<"summary", index.serial, length>>, "English")

\* st.session_state.chat_chain.invoke
AnswerOf(chain, user_q, model_history) ==
    Text(<<"answer", user_q, Len(model_history)>>, "English")

NoChain == [retriever |-> NoIndex, k |-> 0]
Chain(index) == [retriever |-> index, k |-> 4]

Turn(role, original, display) ==
    [role |-> role, original_content |-> original, display_content |-> display]

UserText(user_q) == Text(<<"question", user_q>>, "typed")

(***************************************************************************)
(* The ask handler.                                                        *)
(***************************************************************************)
model_history_displayed(chat_history) ==
    [i \in 1..Len(chat_history) |->
        <<chat_history[i].role, chat_history[i].display_content>>]

\* model_history = [(turn["role"], turn["original_content"]) for turn in ...]
model_history_of(chat_history) ==
    [i \in 1..Len(chat_history) |->
        <<chat_history[i].role, chat_history[i].original_content>>]

\* A variant that records the question before the chain is invoked.
AskRunUserFirst(chat_history, chat_chain, language, user_q, fault) ==
    LET model_history == model_history_of(chat_history)
        original_answer == AnswerOf(chat_chain, user_q, model_history)
        asked == Append(chat_history, Turn("user", UserText(user_q), UserText(user_q)))
    IN  IF fault = "chain" \/ (fault = "translate" /\ language # "English")
        THEN [result |-> "raised", chat_history |-> asked,
              model_history |-> model_history, invocations |-> 1]
        ELSE [result |-> "ok",
              chat_history |-> Append(asked,
                  Turn("assistant", original_answer, translate_text(original_answer, language))),
              model_history |-> model_history, invocations |-> 1]

\* A variant that keeps the answer only.
AskRunAnswerOnly(chat_history, chat_chain, language, user_q, fault) ==
    LET model_history == model_history_of(chat_history)
        original_answer == AnswerOf(chat_chain, user_q, model_history)
    IN  IF fault = "chain" \/ (fault = "translate" /\ language # "English")
        THEN [result |-> "raised", chat_history |-> chat_history,
              model_history |-> model_history, invocations |-> 1]
        ELSE [result |-> "ok",
              chat_history |-> Append(chat_history,
                  Turn("assistant", original_answer, translate_text(original_answer, language))),
              model_history |-> model_history, invocations |-> 1]

\* The body of "if user_q:".  The chain is invoked once; if it or the
\* translation raises, the script run ends there and neither append runs.
\* [result, chat_history, model_history, invocations]
AskRun(chat_history, chat_chain, language, user_q, fault) ==
    LET model_history == model_history_of(chat_history)
        original_answer == AnswerOf(chat_chain, user_q, model_history)
        display_answer == IF language # "English"
                          THEN translate_text(original_answer, language)
                          ELSE original_answer
    IN  IF fault = "chain" \/ (fault = "translate" /\ language # "English")
        THEN [result |-> "raised", chat_history |-> chat_history,
              model_history |-> model_history, invocations |-> 1]
        ELSE [result |-> "ok",
              chat_history |->
                  Append(Append(chat_history,
                                Turn("user", UserText(user_q), UserText(user_q))),
                         Turn("assistant", original_answer, display_answer)),
              model_history |-> model_history, invocations |-> 1]

(***************************************************************************)
(* State.                                                                  *)
(***************************************************************************)
VARIABLES
    language,           \* st.session_state.language
    current_key,        \* st.session_state.current_key
    summary,            \* st.session_state.summary
    chat_chain,         \* st.session_state.chat_chain
    chat_history,       \* st.session_state.chat_history
    index_cache,        \* st.cache_resource store of get_or_build_index
    summary_cache,      \* st.cache_data store of generate_summary
    translation_cache,  \* st.cache_data store of get_translated_summary
    tmp_files,          \* NamedTemporaryFile(delete=False) files on disk
    builds,             \* doc_key of every FAISS.from_documents that returned
    nprocess,           \* process operations so far
    last_op,            \* the last script run: what it was and what it did
    components,         \* argument of get_cache_key applied alone
    fingerprint         \* its result

session == <<current_key, summary, chat_chain, chat_history>>
app == <<language, current_key, summary, chat_chain, chat_history, index_cache,
         summary_cache, translation_cache, tmp_files, builds, nprocess, last_op>>
vars == <<language, current_key, summary, chat_chain, chat_history, index_cache,
          summary_cache, translation_cache, tmp_files, builds, nprocess, last_op,
          components, fingerprint>>

Op(op, result) ==
    [op |-> op, result |-> result, full_key |-> NoKey, all_docs |-> <<>>,
     index_call |-> "none", model_history |-> <<>>, invocations |-> 0,
     warnings |-> 0, tmp_created |-> 0]

\* Lines 299-305, and empty caches and temporary directory.
AppInit ==
    /\ language = "English"
    /\ current_key = NoKey
    /\ summary = NoText
    /\ chat_chain = NoChain
    /\ chat_history = <<>>
    /\ index_cache = {}
    /\ summary_cache = {}
    /\ translation_cache = {}
    /\ tmp_files = 0
    /\ builds = <<>>
    /\ nprocess = 0
    /\ last_op = Op("start", "ok")

Init ==
    /\ AppInit
    /\ components = <<>>
    /\ fingerprint = get_cache_key(<<>>)

(***************************************************************************)
(* The language selectbox (lines 307-315): the new name is stored and the  *)
(* script reruns; the rerun writes nothing.                                *)
(***************************************************************************)
ChangeLanguage(selected_lang_name) ==
    /\ selected_lang_name # language
    /\ language' = selected_lang_name
    /\ last_op' = Op("change_language", "ok")
    /\ UNCHANGED <<current_key, summary, chat_chain, chat_history, index_cache,
                   summary_cache, translation_cache, tmp_files, builds, nprocess,
                   components, fingerprint>>

(***************************************************************************)
(* The process handler (lines 335-409), one script run with process_btn.   *)
(***************************************************************************)
\* A variant that keeps the turns of the previous session.
AssignSessionKeepsTurns(history, display_summary, index, full_key) ==
    [summary |-> display_summary, chat_chain |-> Chain(index),
     chat_history |-> history, current_key |-> full_key]

\* Lines 406-409.
AssignSession(history, display_summary, index, full_key) ==
    [summary |-> display_summary, chat_chain |-> Chain(index),
     chat_history |-> <<>>, current_key |-> full_key]

\* A variant that clears the turns before the summary is generated.
ProcessClearsEarly(url_input, fetch, files, summary_length, fault) ==
    \E ex \in {Extraction(url_input, fetch, files)} :
    \E full_key \in {get_cache_key(ex.cache_key_components)} :
    \E ib \in {get_or_build_index(index_cache, ex.all_docs, full_key,
                                  Len(builds) + 1, fault = "embed")} :
    \E skey \in {<<full_key, summary_length>>} :
    \E summary_hit \in {Cached(summary_cache, skey)} :
    \E original_summary \in {IF summary_hit THEN Entry(summary_cache, skey).value
                             ELSE SummaryOf(ib.index, summary_length)} :
    \E tkey \in {<<original_summary, language>>} :
    \E translation_hit \in {Cached(translation_cache, tkey)} :
    \E display_summary \in
          {IF language # "English"
           THEN IF translation_hit THEN Entry(translation_cache, tkey).value
                ELSE translate_text(original_summary, language)
           ELSE original_summary} :
    \E new \in {AssignSession(chat_history, display_summary, ib.index, full_key)} :
    LET Ran(result, call) ==
            [Op("process", result) EXCEPT
                !.full_key = IF call = "none" THEN NoKey ELSE full_key,
                !.all_docs = ex.all_docs, !.index_call = call,
                !.warnings = ex.warnings, !.tmp_created = ex.tmp_made]
        IndexCall == IF ib.raised THEN "raised" ELSE IF ib.built THEN "built" ELSE "hit"
    IN
    /\ nprocess < MaxProcess
    /\ nprocess' = nprocess + 1
    /\ UNCHANGED <<language, components, fingerprint>>
    /\ IF url_input = <<>> /\ files = <<>>
       THEN /\ last_op' = Op("process", "no_input")
            /\ UNCHANGED <<session, index_cache, summary_cache, translation_cache,
                           tmp_files, builds>>
       ELSE IF ex.raised
       THEN /\ last_op' = Ran("extraction_raised", "none")
            /\ tmp_files' = tmp_files + ex.tmp_left
            /\ UNCHANGED <<session, index_cache, summary_cache, translation_cache, builds>>
       ELSE IF ex.all_docs = <<>>
       THEN /\ last_op' = Ran("no_content", "none")
            /\ tmp_files' = tmp_files + ex.tmp_left
            /\ UNCHANGED <<session, index_cache, summary_cache, translation_cache, builds>>
       ELSE IF ib.raised
       THEN /\ last_op' = Ran("indexing_failed", IndexCall)
            /\ tmp_files' = tmp_files + ex.tmp_left
            /\ UNCHANGED <<session, index_cache, summary_cache, translation_cache, builds>>
       ELSE
            /\ tmp_files' = tmp_files + ex.tmp_left
            /\ index_cache' = ib.cache
            /\ builds' = IF ib.built THEN Append(builds, full_key) ELSE builds
            /\ IF ~summary_hit /\ fault = "summary"
               THEN /\ last_op' = Ran("summary_raised", IndexCall)
                    /\ chat_history' = <<>>
                    /\ UNCHANGED <<current_key, summary, chat_chain, summary_cache,
                                   translation_cache>>
               ELSE
                    /\ summary_cache' =
                          summary_cache \cup {[key |-> skey, value |-> original_summary]}
                    /\ IF language # "English" /\ ~translation_hit /\ fault = "translate"
                       THEN /\ last_op' = Ran("translation_raised", IndexCall)
                            /\ chat_history' = <<>>
                            /\ UNCHANGED <<current_key, summary, chat_chain,
                                           translation_cache>>
                       ELSE
                            /\ translation_cache' =
                                  IF language # "English"
                                  THEN translation_cache
                                          \cup {[key |-> tkey, value |-> display_summary]}
                                  ELSE translation_cache
                            /\ summary' = new.summary
                            /\ chat_chain' = new.chat_chain
                            /\ chat_history' = new.chat_history
                            /\ current_key' = new.current_key
                            /\ last_op' = Ran("ok", IndexCall)

\* Each local of the handler is bound once, in the order the script
\* computes it (the later ones are read only on the paths that reach them).
Process(url_input, fetch, files, summary_length, fault) ==
    \E ex \in {Extraction(url_input, fetch, files)} :
    \E full_key \in {get_cache_key(ex.cache_key_components)} :
    \E ib \in {get_or_build_index(index_cache, ex.all_docs, full_key,
                                  Len(builds) + 1, fault = "embed")} :
    \E skey \in {<<full_key, summary_length>>} :
    \E summary_hit \in {Cached(summary_cache, skey)} :
    \E original_summary \in {IF summary_hit THEN Entry(summary_cache, skey).value
                             ELSE SummaryOf(ib.index, summary_length)} :
    \E tkey \in {<<original_summary, language>>} :
    \E translation_hit \in {Cached(translation_cache, tkey)} :
    \E display_summary \in
          {IF language # "English"
           THEN IF translation_hit THEN Entry(translation_cache, tkey).value
                ELSE translate_text(original_summary, language)
           ELSE original_summary} :
    \E new \in {AssignSession(chat_history, display_summary, ib.index, full_key)} :
    LET Ran(result, call) ==
            [Op("process", result) EXCEPT
                !.full_key = IF call = "none" THEN NoKey ELSE full_key,
                !.all_docs = ex.all_docs, !.index_call = call,
                !.warnings = ex.warnings, !.tmp_created = ex.tmp_made]
        IndexCall == IF ib.raised THEN "raised" ELSE IF ib.built THEN "built" ELSE "hit"
    IN
    /\ nprocess < MaxProcess
    /\ nprocess' = nprocess + 1
    /\ UNCHANGED <<language, components, fingerprint>>
    /\ IF url_input = <<>> /\ files = <<>>
       THEN /\ last_op' = Op("process", "no_input")
            /\ UNCHANGED <<session, index_cache, summary_cache, translation_cache,
                           tmp_files, builds>>
       ELSE IF ex.raised
       THEN /\ last_op' = Ran("extraction_raised", "none")
            /\ tmp_files' = tmp_files + ex.tmp_left
            /\ UNCHANGED <<session, index_cache, summary_cache, translation_cache, builds>>
       ELSE IF ex.all_docs = <<>>
       THEN /\ last_op' = Ran("no_content", "none")
            /\ tmp_files' = tmp_files + ex.tmp_left
            /\ UNCHANGED <<session, index_cache, summary_cache, translation_cache, builds>>
       ELSE IF ib.raised
       THEN /\ last_op' = Ran("indexing_failed", IndexCall)
            /\ tmp_files' = tmp_files + ex.tmp_left
            /\ UNCHANGED <<session, index_cache, summary_cache, translation_cache, builds>>
       ELSE
            /\ tmp_files' = tmp_files + ex.tmp_left
            /\ index_cache' = ib.cache
            /\ builds' = IF ib.built THEN Append(builds, full_key) ELSE builds
            /\ IF ~summary_hit /\ fault = "summary"
               THEN /\ last_op' = Ran("summary_raised", IndexCall)
                    /\ UNCHANGED <<session, summary_cache, translation_cache>>
               ELSE
                    /\ summary_cache' =
                          summary_cache \cup {[key |-> skey, value |-> original_summary]}
                    /\ IF language # "English" /\ ~translation_hit /\ fault = "translate"
                       THEN /\ last_op' = Ran("translation_raised", IndexCall)
                            /\ UNCHANGED <<session, translation_cache>>
                       ELSE
                            /\ translation_cache' =
                                  IF language # "English"
                                  THEN translation_cache
                                          \cup {[key |-> tkey, value |-> display_summary]}
                                  ELSE translation_cache
                            /\ summary' = new.summary
                            /\ chat_chain' = new.chat_chain
                            /\ chat_history' = new.chat_history
                            /\ current_key' = new.current_key
                            /\ last_op' = Ran("ok", IndexCall)

(***************************************************************************)
(* The chat input (lines 435-448); shown only with a current_key.          *)
(***************************************************************************)
Ask(user_q, fault) ==
    LET r == AskRun(chat_history, chat_chain, language, user_q, fault)
    IN  /\ current_key # NoKey
        /\ Len(chat_history) < 2 * MaxTurns
        /\ chat_history' = r.chat_history
        /\ last_op' = [Op("ask", r.result) EXCEPT
                          !.model_history = r.model_history,
                          !.invocations = r.invocations]
        /\ UNCHANGED <<language, current_key, summary, chat_chain, index_cache,
                       summary_cache, translation_cache, tmp_files, builds, nprocess,
                       components, fingerprint>>

(***************************************************************************)
(* "Hear summary" (lines 423-427): speech from the stored summary.         *)
(***************************************************************************)
HearSummary ==
    /\ current_key # NoKey
    /\ last_op' = Op("hear_summary", "ok")
    /\ UNCHANGED <<language, current_key, summary, chat_chain, chat_history,
                   index_cache, summary_cache, translation_cache, tmp_files, builds,
                   nprocess, components, fingerprint>>

(***************************************************************************)
(* A download button (lines 450-478): the report is made of the summary    *)
(* and of the display_content of the turns.                                *)
(***************************************************************************)
Export(format) ==
    /\ current_key # NoKey
    /\ summary # NoText
    /\ format \in {"json", "docx"}
    /\ last_op' = Op("export", "ok")
    /\ UNCHANGED <<language, current_key, summary, chat_chain, chat_history,
                   index_cache, summary_cache, translation_cache, tmp_files, builds,
                   nprocess, components, fingerprint>>

(***************************************************************************)
(* Spec: every operation, in any order.  The process operation draws its   *)
(* inputs from a few submissions: a web page that reads as text or as      *)
(* nothing, with or without one readable PDF.  The selectbox offers the    *)
(* base language and one other: the code tests only != "English".          *)
(***************************************************************************)
SessionUrls == { <<>>, <<119>> }
SessionFetches == {"text", ""}
SessionFiles == { <<>>, <<[bytes |-> 0, type |-> MimePdf]>> }
SessionLanguages == {"English", "Hindi"}

Next ==
    \/ \E l \in SessionLanguages : ChangeLanguage(l)
    \/ \E url_input \in SessionUrls, fetch \in SessionFetches, files \in SessionFiles,
          summary_length \in {300}, fault \in ProcessFaults :
          Process(url_input, fetch, files, summary_length, fault)
    \/ \E user_q \in Questions, fault \in AskFaults : Ask(user_q, fault)
    \/ HearSummary
    \/ \E format \in {"json", "docx"} : Export(format)

Spec == Init /\ [][Next]_vars

(***************************************************************************)
(* SpecIngest: one process operation of a fresh server process, over every *)
(* URL, fetch result, batch of uploads, summary length and fault.          *)
(***************************************************************************)
NextIngest ==
    \E url_input \in UrlInputs, fetch \in Fetches,
       files \in SeqsUpTo(UploadedFile, MaxFiles),
       summary_length \in SummaryLengths, fault \in ProcessFaults :
       /\ nprocess = 0
       /\ Process(url_input, fetch, files, summary_length, fault)

SpecIngest == Init /\ [][NextIngest]_vars

(***************************************************************************)
(* SpecKey: get_cache_key alone, on every list of up to MaxKeyLen          *)
(* identifiers, and on the rearrangements of that list.                    *)
(***************************************************************************)
\* Identifiers: the URLs and the digests of the file contents.
Identifiers == (UrlInputs \ { <<>> }) \cup { doc_id_from_source(b) : b \in FileContents }

Swap(l, i, j) == [l EXCEPT ![i] = l[j], ![j] = l[i]]

InitKey ==
    /\ AppInit
    /\ components \in SeqsUpTo(Identifiers, MaxKeyLen)
    /\ fingerprint = get_cache_key(components)

\* The same identifiers in another order.
Permute ==
    /\ \E i, j \in 1..Len(components) :
          /\ i < j
          /\ components' = Swap(components, i, j)
    /\ fingerprint' = get_cache_key(components')
    /\ last_op' = Op("permute", "ok")
    /\ UNCHANGED <<language, current_key, summary, chat_chain, chat_history,
                   index_cache, summary_cache, translation_cache, tmp_files, builds,
                   nprocess>>

\* The same list again.
Recompute ==
    /\ fingerprint' = get_cache_key(components)
    /\ last_op' = Op("get_cache_key", "ok")
    /\ UNCHANGED <<language, current_key, summary, chat_chain, chat_history,
                   index_cache, summary_cache, translation_cache, tmp_files, builds,
                   nprocess, components>>

NextKey == Permute \/ Recompute

SpecKey == InitKey /\ [][NextKey]_vars

(***************************************************************************)
(* Properties.                                                             *)
(***************************************************************************)
ProcessRan == last_op.op = "process"
ProcessCompleted == last_op.op = "process" /\ last_op.result = "ok"
AskRan == last_op.op = "ask"

\* C1 (Spec): an index is built at most once per fingerprint: no doc_key
\* occurs twice among the builds, the store holds one index per built key,
\* namely the instance of that one build, and a process operation that
\* completes works on the stored instance of its fingerprint, whatever
\* documents it supplied.
C1_AtMostOneBuild ==
    /\ \A i, j \in 1..Len(builds) : builds[i] = builds[j] => i = j
    /\ Cardinality(index_cache) = Len(builds)
    /\ \A e \in index_cache :
          /\ e.value.doc_key = e.key
          /\ e.value.serial \in 1..Len(builds)
          /\ builds[e.value.serial] = e.key
    /\ ProcessCompleted =>
          /\ Cached(index_cache, last_op.full_key)
          /\ chat_chain.retriever = Entry(index_cache, last_op.full_key).value

\* A second process operation hit the store with documents that split into
\* other chunks than the stored index holds.
C1_Witness ==
    /\ ProcessCompleted
    /\ last_op.index_call = "hit"
    /\ split_documents(last_op.all_docs) # chat_chain.retriever.chunks

\* C2 (SpecKey): get_cache_key gives the same fingerprint for the same
\* identifiers in any order, and for the same list when called again.
C2_OrderIndependent == [][fingerprint' = fingerprint]_vars

\* A list with a URL and a digest, not in sorted order, reached by a
\* rearrangement.
C2_Witness ==
    /\ last_op.op = "permute"
    /\ Len(components) >= 2
    /\ components # sorted(components)
    /\ \E i, j \in 1..Len(components) :
          Len(components[i]) = DigestLen /\ Len(components[j]) < DigestLen

\* C3 (Spec): the session fields always belong to one fingerprint, and
\* right after a process operation that completed they are those of the
\* submitted inputs: current_key is their fingerprint, the chain and the
\* summary come from the index stored for it, the summary is in the
\* selected language, and there is no turn.
C3_SessionReplaced ==
    /\ current_key # NoKey =>
          /\ chat_chain.retriever.doc_key = current_key
          /\ summary.src[1] = "summary"
          /\ summary.src[2] = chat_chain.retriever.serial
    /\ ProcessCompleted =>
          /\ current_key = last_op.full_key
          /\ chat_chain = Chain(Entry(index_cache, last_op.full_key).value)
          /\ summary.lang = language
          /\ chat_history = <<>>

\* The second process operation completed on another fingerprint than the
\* first.
C3_Witness ==
    /\ ProcessCompleted
    /\ nprocess = 2
    /\ Len(builds) = 2
    /\ last_op.index_call = "built"

\* C4 (Spec): with an active session, the summary and every assistant
\* turn's display text are in the selected language, and every turn's
\* model-facing text is the untranslated original.
C4_DisplayLanguage ==
    current_key # NoKey =>
        /\ summary.lang = language
        /\ \A i \in 1..Len(chat_history) :
              /\ chat_history[i].role = "assistant" =>
                    chat_history[i].display_content.lang = language
              /\ chat_history[i].original_content.lang \in {"English", "typed"}

\* C5 (Spec): the history handed to the chain on an ask is the sequence of
\* (role, original_content) of the turns present before it, in order.
PriorTurns ==
    IF last_op.result = "ok"
    THEN SubSeq(chat_history, 1, Len(chat_history) - 2)
    ELSE chat_history

C5_HistoryHanded ==
    AskRan =>
        /\ Len(last_op.model_history) = Len(PriorTurns)
        /\ \A i \in 1..Len(PriorTurns) :
              /\ last_op.model_history[i][1] = PriorTurns[i].role
              /\ last_op.model_history[i][2] = PriorTurns[i].original_content

\* An ask after a turn pair whose answer is displayed in another language
\* than it was given in.
C5_Witness ==
    /\ AskRan
    /\ Len(last_op.model_history) = 2
    /\ PriorTurns[2].display_content # PriorTurns[2].original_content

\* C6 (Spec): an ask that raises leaves the turns, the summary, the
\* fingerprint and the chain as they were, after a single invocation of
\* the chain; every user turn is followed by its assistant turn.
C6_FailedAskKeepsHistory ==
    /\ [](\A i \in 1..Len(chat_history) :
             chat_history[i].role = "user" =>
                 /\ i < Len(chat_history)
                 /\ chat_history[i + 1].role = "assistant")
    /\ [](AskRan => last_op.invocations = 1)
    /\ [][(last_op'.op = "ask" /\ last_op'.result = "raised")
             => UNCHANGED session]_vars

\* An ask raised in a session that already had turns.
C6_Witness ==
    /\ AskRan
    /\ last_op.result = "raised"
    /\ Len(chat_history) >= 2

\* C7 (SpecIngest): no process operation is stopped by a failing extraction.
C7_ExtractionAbsorbed ==
    ProcessRan => last_op.result # "extraction_raised"

\* C8 (SpecIngest, Spec): no temporary file is left when a script run ends.
C8_NoTempFileLeft == tmp_files = 0

C10_AppendOnly ==
    /\ [](\A i \in 1..Len(chat_history) :
             chat_history[i].role = IF i % 2 = 1 THEN "user" ELSE "assistant")
    /\ [](Len(chat_history) % 2 = 0)
    /\ [][IF last_op'.op = "ask" /\ last_op'.result = "ok"
          THEN /\ Len(chat_history') = Len(chat_history) + 2
               /\ SubSeq(chat_history', 1, Len(chat_history)) = chat_history
          ELSE IF last_op'.op = "process"
          THEN chat_history' \in {chat_history, <<>>}
          ELSE chat_history' = chat_history]_vars

\* Two asks succeeded and a report was exported afterwards.
C10_Witness ==
    /\ Len(chat_history) = 4
    /\ last_op.op = "export"

(***************************************************************************)
(* SpecFailure: sessions with turns, and process operations that stop at   *)
(* every stage: no input, a PDF that cannot be parsed, an upload of an     *)
(* unsupported type alone, blank content, and a collaborator that raises.  *)
(***************************************************************************)
FailureFiles ==
    { <<>>,
      <<[bytes |-> 0, type |-> MimePdf]>>,
      <<[bytes |-> 2, type |-> MimePdf]>>,
      <<[bytes |-> 0, type |-> MimeOther]>> }

NextFailure ==
    \/ \E l \in SessionLanguages : ChangeLanguage(l)
    \/ \E url_input \in SessionUrls, fetch \in SessionFetches, files \in FailureFiles,
          summary_length \in {300}, fault \in ProcessFaults :
          Process(url_input, fetch, files, summary_length, fault)
    \/ \E user_q \in Questions, fault \in AskFaults : Ask(user_q, fault)

SpecFailure == Init /\ [][NextFailure]_vars

\* C11 (SpecFailure): a process operation that stops, at whatever stage,
\* leaves current_key, summary, chat_chain and chat_history as they were;
\* one that completes writes all four.
C11_FailedProcessKeepsSession ==
    [][last_op'.op = "process" =>
          IF last_op'.result = "ok"
          THEN /\ current_key' = last_op'.full_key
               /\ chat_chain'.retriever.doc_key = current_key'
               /\ summary'.src[2] = chat_chain'.retriever.serial
               /\ chat_history' = <<>>
          ELSE /\ last_op'.result \in {"no_input", "extraction_raised", "no_content",
                                       "indexing_failed", "summary_raised",
                                       "translation_raised"}
               /\ UNCHANGED session]_vars

\* The translation of the summary raised in a session that had turns.
C11_Witness ==
    /\ ProcessRan
    /\ last_op.result = "translation_raised"
    /\ current_key # NoKey
    /\ current_key # last_op.full_key
    /\ Len(chat_history) >= 2

(***************************************************************************)
(* SpecInject: lines 340-379 of the process handler, from the inputs to    *)
(* the fingerprint, one submission after another.  The URL field takes any *)
(* text: here the URLs of the other specifications and the text made of    *)
(* the digest of the file content 0, the separator and "w".  The uploads   *)
(* are images, which load_image always turns into a document.              *)
(***************************************************************************)
InjectUrls == UrlInputs \cup { doc_id_from_source(0) \o Separator \o <<119>> }

InjectFiles == SeqsUpTo([bytes : FileContents, type : {MimePng}], MaxFiles)

\* Extraction, the two stops, and get_cache_key on what was collected.
Submit(url_input, fetch, files) ==
    /\ url_input # <<>> \/ files # <<>>
    /\ \E ex \in {Extraction(url_input, fetch, files)} :
          /\ ~ex.raised
          /\ ex.all_docs # <<>>
          /\ components' = ex.cache_key_components
          /\ fingerprint' = get_cache_key(ex.cache_key_components)
          /\ last_op' = [Op("submit", "ok") EXCEPT
                            !.full_key = get_cache_key(ex.cache_key_components),
                            !.all_docs = ex.all_docs,
                            !.tmp_created = ex.tmp_made]
    /\ UNCHANGED <<language, current_key, summary, chat_chain, chat_history,
                   index_cache, summary_cache, translation_cache, tmp_files, builds,
                   nprocess>>

NextInject ==
    \E url_input \in InjectUrls, fetch \in Fetches, files \in InjectFiles :
       Submit(url_input, fetch, files)

SpecInject == Init /\ [][NextInject]_vars

\* The identifiers of a submission, whatever their order and number.
SourceIds(cache_key_components) ==
    { cache_key_components[i] : i \in 1..Len(cache_key_components) }

\* C12 (SpecInject): two submissions whose identifiers differ, by the URL
\* text or by the set of file digests, never obtain the same fingerprint.
C12_FingerprintInjective ==
    [][SourceIds(components') # SourceIds(components) => fingerprint' # fingerprint]_vars

====
